---- MODULE Spec2Model ----
(***************************************************************************)
(* The Quant's Cockpit: the price store and its ingestion job              *)
(* (database/models.py, database/ingest.py), the analytics functions       *)
(* (analytics/metrics.py) and the dashboard script (app.py).               *)
(*                                                                         *)
(* Three specifications share the module:                                  *)
(*   SpecIngest   the store, the ingestion loop and the loader run on it   *)
(*   SpecMetrics  the pure analytics functions on bounded price matrices   *)
(*   SpecDash     the dashboard script, rerun on every user interaction    *)
(***************************************************************************)
EXTENDS Integers, Sequences, FiniteSets, Bags, TLC

VARIABLES
    db_tables,      \* TRUE once Base.metadata.create_all has created the tables
    stocks,         \* the stocks table: sequence of rows, id = position
    stock_prices,   \* the stock_prices table: a bag of [stock_id, date, close]
    ing_pc,         \* ingestion process: "idle", "create", "update", "done", "crashed"
    ing_i,          \* position of the ingestion loop in the configured ticker list
    ing_runs,       \* ingestion processes started so far
    request,        \* update_price_history's yf.download request: [symbol, start]
    data,           \* update_price_history's local: what yf.download answered
    df_prices,      \* metrics.py main: the frame load_data() returned (or raised)
    daily_returns,  \* metrics.py main: the returns frame of calculate_metrics
    df_in,          \* a PriceMatrix handed to an analytics function
    fn,             \* the analytics function called last on df_in
    returns,        \* calculate_metrics(df_in): the returns frame
    num_simulations,\* run_monte_carlo's argument
    days,           \* run_monte_carlo's argument
    draws,          \* the values np.random.normal returned, per run and day
    simulation_df,  \* run_monte_carlo's result
    cache_data,     \* app.py: st.cache_data's entry for get_data()
    cache_sectors,  \* app.py: st.cache_data's entry for get_sector_map()
    store_reads,    \* app.py: times get_data's body has queried the store
    selected_assets,\* app.py: st.session_state.selected_assets, [set, tickers]
    start_input,    \* app.py: value of the Start Date input (0: not drawn)
    end_input,      \* app.py: value of the End Date input (0: not drawn)
    selected_tickers,\* app.py: the multiselect's value in the last run
    halt,           \* app.py: where the last run of the script ended
    message,        \* app.py: "database_error", "warning", "exception", "none"
    calls           \* app.py: the analytics calls of the last run, [fn, df]

metricsVars == <<df_in, fn, returns, num_simulations, days, draws, simulation_df>>

ingestVars == <<db_tables, stocks, stock_prices, ing_pc, ing_i, ing_runs, request, data,
                df_prices, daily_returns>>

dashVars == <<cache_data, cache_sectors, store_reads, selected_assets, start_input,
              end_input, selected_tickers, halt, message, calls>>

vars == <<ingestVars, metricsVars, dashVars>>

----------------------------------------------------------------------------
(* Floating point values, in exact arithmetic: a finite value is the       *)
(* reduced fraction n/d, and nan / inf / -inf are what numpy produces on   *)
(* x/0 and on operations with them.  Rounding is not modelled.             *)

RECURSIVE GCD(_, _)
GCD(a, b) == IF b = 0 THEN a ELSE GCD(b, a % b)

Abs(x) == IF x < 0 THEN -x ELSE x

NaN == [k |-> "nan", n |-> 0, d |-> 1]
PosInf == [k |-> "inf", n |-> 1, d |-> 1]
NegInf == [k |-> "inf", n |-> -1, d |-> 1]

\* the finite value n/d (d # 0), reduced, sign carried by the numerator
Frac(n, d) ==
    LET g == GCD(Abs(n), Abs(d))
        s == IF d < 0 THEN -1 ELSE 1
    IN  [k |-> "num", n |-> s * (n \div g), d |-> Abs(d) \div g]

F(n) == Frac(n, 1)

IsNaN(x) == x.k = "nan"
IsInf(x) == x.k = "inf"
IsNum(x) == x.k = "num"

Sign(i) == IF i > 0 THEN 1 ELSE IF i < 0 THEN -1 ELSE 0

FAdd(x, y) ==
    IF IsNaN(x) \/ IsNaN(y) THEN NaN
    ELSE IF IsInf(x) /\ IsInf(y) THEN (IF x.n = y.n THEN x ELSE NaN)
    ELSE IF IsInf(x) THEN x
    ELSE IF IsInf(y) THEN y
    ELSE Frac(x.n * y.d + y.n * x.d, x.d * y.d)

FNeg(x) == IF IsNaN(x) THEN NaN ELSE [x EXCEPT !.n = -x.n]

FSub(x, y) == FAdd(x, FNeg(y))

FMul(x, y) ==
    IF IsNaN(x) \/ IsNaN(y) THEN NaN
    ELSE IF IsInf(x) \/ IsInf(y)
         THEN (IF Sign(x.n) * Sign(y.n) = 0 THEN NaN
               ELSE IF Sign(x.n) * Sign(y.n) > 0 THEN PosInf ELSE NegInf)
    ELSE Frac(x.n * y.n, x.d * y.d)

\* numpy float division: x/0 is inf, -inf or nan, never an exception
FDiv(x, y) ==
    IF IsNaN(x) \/ IsNaN(y) THEN NaN
    ELSE IF IsInf(x) THEN (IF IsInf(y) THEN NaN
                           ELSE IF Sign(x.n) * (IF y.n < 0 THEN -1 ELSE 1) > 0
                                THEN PosInf ELSE NegInf)
    ELSE IF IsInf(y) THEN F(0)
    ELSE IF y.n = 0 THEN (IF x.n = 0 THEN NaN
                          ELSE IF x.n > 0 THEN PosInf ELSE NegInf)
    ELSE Frac(x.n * y.d, x.d * y.n)

----------------------------------------------------------------------------
(* Sequence helpers *)

Range(s) == {s[i] : i \in DOMAIN s}

\* every sequence over S of length 0..n
SeqsUpTo(S, n) == UNION {[1..k -> S] : k \in 0..n}

\* the elements of a finite set of integers in increasing order
RECURSIVE SortedSeq(_)
SortedSeq(S) ==
    IF S = {} THEN <<>>
    ELSE LET m == CHOOSE x \in S : \A y \in S : x <= y
         IN  <<m>> \o SortedSeq(S \ {m})

----------------------------------------------------------------------------
(* Bounds of the model *)

\* rows in one provider response
MaxRows == 1
\* ingestion processes started in one behaviour
MaxRuns == 2
\* the day number of datetime.now() while the ingestion job runs
Today == 2000

\* rows of a PriceMatrix handed to the analytics functions
MaxPriceRows == 3
\* cells (rows times columns) of such a PriceMatrix
MaxCells == 6
\* simulation runs asked of run_monte_carlo
MaxSims == 2
\* horizon, in days, asked of run_monte_carlo
MaxSimDays == 1

\* the trading days the provider has rows for
Days == {Today - 1, Today}

\* close prices the provider reports in the ingestion model (NaN: no quote)
Closes == {NaN, F(1)}

FiveYears == 365 * 5

\* the configured tickers in the order the ingestion loop visits them
\* (ingest.py's sectors dict, cut down to two entries)
sectors ==
    << [symbol |-> "AAPL", sector |-> "Technology"],
       [symbol |-> "SPY",  sector |-> "Indices/ETFs"] >>

\* lexicographic order of the ticker symbols, as pandas sorts column labels
SymbolOrder == <<"AAPL", "MSFT", "NVDA", "SPY">>

SymbolRank(sym) == CHOOSE i \in DOMAIN SymbolOrder : SymbolOrder[i] = sym

----------------------------------------------------------------------------
(* The price store: models.py *)

\* class Stock: id is the row's position, symbol is unique
Stock(symbol, name, sector) == [symbol |-> symbol, name |-> name, sector |-> sector]

\* class StockPrice: no unique constraint on (stock_id, date); the primary key
\* is the autoincrement id alone, so equal rows may coexist (a bag)
StockPrice(stock_id, date, close) == [stock_id |-> stock_id, date |-> date, close |-> close]

\* session.query(Stock).filter_by(symbol=symbol).first(): the id, or 0 for None
StockId(st, symbol) ==
    IF \E i \in DOMAIN st : st[i].symbol = symbol
    THEN CHOOSE i \in DOMAIN st : st[i].symbol = symbol
    ELSE 0

\* the stored rows of one stock
RowsOf(pr, stock_id) == {r \in BagToSet(pr) : r.stock_id = stock_id}

\* number of stock_prices rows with this stock and date
CountAt(pr, stock_id, date) ==
    LET S == {r \in RowsOf(pr, stock_id) : r.date = date}
        RECURSIVE Sum(_)
        Sum(T) == IF T = {} THEN 0
                  ELSE LET r == CHOOSE x \in T : TRUE IN CopiesIn(r, pr) + Sum(T \ {r})
    IN  Sum(S)

----------------------------------------------------------------------------
(* Ingestion: ingest.py *)

Max(S) == CHOOSE x \in S : \A y \in S : y <= x

\* func.max(StockPrice.date) for the stock: 0 stands for None (no rows)
last_entry(pr, stock_id) ==
    IF RowsOf(pr, stock_id) = {} THEN 0
    ELSE Max({r.date : r \in RowsOf(pr, stock_id)})

\* a variant that asks again for the last stored day
start_date_from_last_entry(pr, stock_id) ==
    IF last_entry(pr, stock_id) # 0
    THEN last_entry(pr, stock_id)
    ELSE Today - FiveYears

\* lines 41-48: the start of the requested range
start_date(pr, stock_id) ==
    IF last_entry(pr, stock_id) # 0
    THEN last_entry(pr, stock_id) + 1
    ELSE Today - FiveYears

\* what yf.download can answer: an exception, or a frame of rows
ProviderRows == [date : Days, close : Closes, volume : {NaN, F(1)}]

Responses ==
    {[raises |-> TRUE, rows |-> <<>>]}
    \cup {[raises |-> FALSE, rows |-> s] : s \in SeqsUpTo(ProviderRows, MaxRows)}

\* lines 59-70: int(volume) raises ValueError on NaN; float(close) accepts NaN
ConversionRaises(rows) == \E i \in DOMAIN rows : IsNaN(rows[i].volume)

\* lines 61-70: the records built from the response
RECURSIVE new_records(_, _)
new_records(stock_id, rows) ==
    IF rows = <<>> THEN EmptyBag
    ELSE SetToBag({StockPrice(stock_id, Head(rows).date, Head(rows).close)})
         (+) new_records(stock_id, Tail(rows))

NoRequest == [symbol |-> "", start |-> 0]
NoData == [raises |-> FALSE, rows |-> <<>>]
NoFrame == [st |-> "none", index |-> <<>>, columns |-> <<>>, data |-> <<>>]

\* models.py main: create_database().  It is a process of its own: the
\* locals of an earlier metrics.py process are gone.
CreateDatabase ==
    /\ ~db_tables
    /\ db_tables' = TRUE
    /\ df_prices' = NoFrame
    /\ daily_returns' = NoFrame
    /\ UNCHANGED <<stocks, stock_prices, ing_pc, ing_i, ing_runs, request, data>>
    /\ UNCHANGED <<metricsVars, dashVars>>

\* ingest.py main, lines 79-92: a new ingestion process starts its loop.
\* The ingestion job never runs beside an analytics read, so the locals of
\* an earlier metrics.py process are gone.
StartIngestion ==
    /\ ing_pc \in {"idle", "done", "crashed"}
    /\ ing_runs < MaxRuns
    /\ ing_pc' = "create"
    /\ ing_i' = 1
    /\ ing_runs' = ing_runs + 1
    /\ request' = NoRequest
    /\ data' = NoData
    /\ df_prices' = NoFrame
    /\ daily_returns' = NoFrame
    /\ UNCHANGED <<db_tables, stocks, stock_prices>>
    /\ UNCHANGED <<metricsVars, dashVars>>

\* line 98, get_or_create_stock (lines 13-24): the query raises
\* OperationalError when the tables do not exist.  The locals of the
\* previous update_price_history call are out of scope by now.
GetOrCreateStock ==
    /\ ing_pc = "create"
    /\ LET c == sectors[ing_i] IN
       IF ~db_tables
       THEN /\ ing_pc' = "crashed"
            /\ UNCHANGED stocks
       ELSE /\ ing_pc' = "update"
            /\ stocks' = IF StockId(stocks, c.symbol) = 0
                         THEN Append(stocks, Stock(c.symbol, c.symbol, c.sector))
                         ELSE stocks
    /\ request' = NoRequest
    /\ data' = NoData
    /\ UNCHANGED <<db_tables, stock_prices, ing_i, ing_runs, df_prices, daily_returns>>
    /\ UNCHANGED <<metricsVars, dashVars>>

\* a variant that leaves the loop after the first ticker that returns
LoopBreaks ==
    ing_pc' = "done" /\ UNCHANGED ing_i

\* lines 94-101: after update_price_history returns, the loop goes on
LoopAdvance ==
    IF ing_i = Len(sectors)
    THEN ing_pc' = "done" /\ UNCHANGED ing_i
    ELSE ing_pc' = "create" /\ ing_i' = ing_i + 1

\* a variant that catches the exception and goes on with the next ticker
PropagateCaught ==
    /\ IF ing_i = Len(sectors)
       THEN ing_pc' = "done" /\ UNCHANGED ing_i
       ELSE ing_pc' = "create" /\ ing_i' = ing_i + 1
    /\ UNCHANGED stock_prices

\* lines 94-99 hold no try/except: an exception of update_price_history,
\* raised before session.add_all, ends the process
Propagate ==
    /\ ing_pc' = "crashed"
    /\ UNCHANGED <<stock_prices, ing_i>>

\* line 99, update_price_history (lines 26-75), with the provider's answer
UpdatePriceHistory(resp) ==
    /\ ing_pc = "update"
    /\ LET symbol == sectors[ing_i].symbol
           id == StockId(stocks, symbol)
       IN
       IF id = 0
       THEN \* lines 34-36
            /\ LoopAdvance
            /\ UNCHANGED <<stock_prices, request, data>>
       ELSE /\ request' = [symbol |-> symbol, start |-> start_date(stock_prices, id)]
            /\ data' = resp
            /\ IF resp.raises \/ ConversionRaises(resp.rows)
               THEN Propagate
               ELSE IF resp.rows = <<>>
               THEN \* lines 53-55
                    /\ LoopAdvance
                    /\ UNCHANGED stock_prices
               ELSE \* lines 73-74
                    /\ stock_prices' = stock_prices (+) new_records(id, resp.rows)
                    /\ LoopAdvance
    /\ UNCHANGED <<db_tables, stocks, ing_runs, df_prices, daily_returns>>
    /\ UNCHANGED <<metricsVars, dashVars>>

----------------------------------------------------------------------------
(* Data frames: index labels, column labels, and the cells row by row *)

Frame(index, columns, cells) ==
    [st |-> "frame", index |-> index, columns |-> columns, data |-> cells]

\* the call raised instead of returning a frame
Raised == [st |-> "raised", index |-> <<>>, columns |-> <<>>, data |-> <<>>]

\* the positions 1..n of the rows that hold no NaN, in order
RECURSIVE RowsWithoutNaN(_, _)
RowsWithoutNaN(cells, i) ==
    IF i > Len(cells) THEN <<>>
    ELSE (IF \A j \in DOMAIN cells[i] : ~IsNaN(cells[i][j]) THEN <<i>> ELSE <<>>)
         \o RowsWithoutNaN(cells, i + 1)

\* DataFrame.dropna(): drop every row that holds a NaN
dropna(df) ==
    LET kept == RowsWithoutNaN(df.data, 1)
    IN  Frame([i \in DOMAIN kept |-> df.index[kept[i]]],
              df.columns,
              [i \in DOMAIN kept |-> df.data[kept[i]]])

\* symbols in the order pandas sorts column labels
SortedSymbols(S) ==
    LET ranks == SortedSeq({SymbolRank(x) : x \in S})
    IN  [i \in DOMAIN ranks |-> SymbolOrder[ranks[i]]]

----------------------------------------------------------------------------
(* Analytics: metrics.py *)

\* lines 17-23: the joined rows exist for stocks that have price rows
JoinedSymbols(st, pr) == {st[r.stock_id].symbol : r \in BagToSet(pr)}

\* line 29, df.pivot: ValueError when a (date, symbol) pair occurs twice
PivotRaises(st, pr) ==
    \E r \in BagToSet(pr) : CountAt(pr, r.stock_id, r.date) > 1

\* line 29: dates down, symbols across, close in the cell, NaN where no row is
pivot(st, pr) ==
    LET index == SortedSeq({r.date : r \in BagToSet(pr)})
        columns == SortedSymbols(JoinedSymbols(st, pr))
        Cell(date, symbol) ==
            LET rows == {r \in RowsOf(pr, StockId(st, symbol)) : r.date = date}
            IN  IF rows = {} THEN NaN ELSE (CHOOSE r \in rows : TRUE).close
    IN  Frame(index, columns,
              [i \in DOMAIN index |-> [j \in DOMAIN columns |-> Cell(index[i], columns[j])]])

\* load_data (lines 7-34): read_sql raises when the tables are missing
load_data(tables, st, pr) ==
    IF ~tables THEN Raised
    ELSE IF PivotRaises(st, pr) THEN Raised
    ELSE dropna(pivot(st, pr))

\* DataFrame.pct_change(): df / df.shift(1) - 1, the first row all NaN
pct_change(df) ==
    Frame(df.index, df.columns,
          [i \in DOMAIN df.data |->
              [j \in DOMAIN df.columns |->
                  IF i = 1 THEN NaN
                  ELSE FSub(FDiv(df.data[i][j], df.data[i - 1][j]), F(1))]])

\* a variant that keeps the undefined leading row
calculate_metrics_without_dropna(df) == pct_change(df)

\* calculate_metrics (lines 37-50): the returns frame
calculate_metrics(df) == dropna(pct_change(df))

\* metrics.py main (lines 53-63), run while no ingestion process is running
MetricsMain ==
    /\ ing_pc \in {"idle", "done", "crashed"}
    /\ df_prices' = load_data(db_tables, stocks, stock_prices)
    /\ daily_returns' = IF df_prices'.st = "frame"
                        THEN calculate_metrics(df_prices')
                        ELSE NoFrame
    /\ UNCHANGED <<db_tables, stocks, stock_prices, ing_pc, ing_i, ing_runs, request, data>>
    /\ UNCHANGED <<metricsVars, dashVars>>

\* sum of a sequence of floats
RECURSIVE FSum(_)
FSum(s) == IF s = <<>> THEN F(0) ELSE FAdd(Head(s), FSum(Tail(s)))

\* Series.mean(): NaN values are skipped; NaN when nothing is left
mean(s) ==
    LET v == SelectSeq(s, LAMBDA x : ~IsNaN(x))
    IN  IF v = <<>> THEN NaN ELSE FDiv(FSum(v), F(Len(v)))

\* Series.std() squared: the sample variance (ddof = 1), NaN below two values
variance(s) ==
    LET v == SelectSeq(s, LAMBDA x : ~IsNaN(x))
        m == mean(v)
    IN  IF Len(v) < 2 THEN NaN
        ELSE FDiv(FSum([i \in DOMAIN v |-> FMul(FSub(v[i], m), FSub(v[i], m))]),
                  F(Len(v) - 1))

Column(df, j) == [i \in DOMAIN df.data |-> df.data[i][j]]

\* line 111: returns.mean().mean()
daily_return(df) ==
    LET r == calculate_metrics(df)
    IN  mean([j \in DOMAIN r.columns |-> mean(Column(r, j))])

\* line 110: returns.std().mean().  The standard deviations are square roots;
\* what is kept of their mean is whether it is NaN, zero or positive.
daily_vol(df) ==
    LET r == calculate_metrics(df)
        v == mean([j \in DOMAIN r.columns |-> variance(Column(r, j))])
    IN  IF IsNaN(v) THEN "nan" ELSE IF v = F(0) THEN "zero" ELSE "positive"

\* line 108: df.iloc[-1].mean()
last_price(df) == mean(df.data[Len(df.data)])

\* np.random.normal(loc, scale): loc + scale * z for a standard normal z.
\* A NaN parameter gives NaN, a zero scale gives loc; otherwise the value is
\* whatever the random source draws (the argument drawn).
normal(loc, scale, drawn) ==
    IF scale = "nan" \/ IsNaN(loc) THEN NaN
    ELSE IF scale = "zero" \/ IsInf(loc) THEN loc
    ELSE drawn

\* a variant that leaves the initial shocked price out of the series
RECURSIVE price_series_without_start(_, _, _)
price_series_without_start(price, shocks, y) ==
    IF y > Len(shocks) THEN <<>>
    ELSE LET next == FMul(price, FAdd(F(1), shocks[y]))
         IN  (IF y = 1 THEN <<>> ELSE <<next>>) \o price_series_without_start(next, shocks, y + 1)

\* a variant that applies every day's shock to the starting price
RECURSIVE price_series_from_start(_, _, _)
price_series_from_start(price, shocks, y) ==
    IF y > Len(shocks) THEN <<>>
    ELSE <<FMul(price, FAdd(F(1), shocks[y]))>>
         \o price_series_from_start(price, shocks, y + 1)

\* lines 118-127: the prices of one run; shocks[1] is the initial shock
\* (line 120), shocks[y + 1] the shock of day y (line 125)
RECURSIVE price_series(_, _, _)
price_series(price, shocks, y) ==
    IF y > Len(shocks) THEN <<>>
    ELSE LET next == FMul(price, FAdd(F(1), shocks[y]))
         IN  <<next>> \o price_series(next, shocks, y + 1)

\* the values np.random.normal returns, per run x and call y: the first
\* call of a run has loc 0 (line 120), the later ones loc daily_return
\* (line 125), all have scale daily_vol; z holds what the random source draws
draw_shocks(loc, scale, N, D, z) ==
    [x \in 1..N |->
        [y \in 1..(D + 1) |-> normal(IF y = 1 THEN F(0) ELSE loc, scale, z[x][y])]]

\* run_monte_carlo (lines 102-131), given the values np.random.normal
\* returns: column x holds the series of run x.  df.iloc[-1] raises
\* IndexError on a frame without rows.
run_monte_carlo(df, N, D, shocks) ==
    IF Len(df.index) = 0 THEN Raised
    ELSE IF N = 0 THEN Frame(<<>>, <<>>, <<>>)
    ELSE LET start == last_price(df)
             series == [x \in 1..N |-> price_series(start, shocks[x], 1)]
             rows == Len(series[1])
         IN  Frame([t \in 1..rows |-> t - 1],
                   [x \in 1..N |-> x - 1],
                   [t \in 1..rows |-> [x \in 1..N |-> series[x][t]]])

\* what the random source may draw
ShockValues == {Frac(-1, 2), Frac(1, 2)}

\* the draws of N runs of D + 1 calls each; normal() reads them only when
\* the scale is positive, so one representative is enough otherwise
Draws(scale, N, D) ==
    IF scale = "positive"
    THEN [1..N -> [1..(D + 1) -> ShockValues]]
    ELSE {[x \in 1..N |-> [y \in 1..(D + 1) |-> Frac(1, 2)]]}

\* a call of calculate_metrics on the matrix
CalculateMetrics ==
    /\ df_in.st = "frame"
    /\ fn = "none"
    /\ fn' = "calculate_metrics"
    /\ returns' = calculate_metrics(df_in)
    /\ UNCHANGED <<df_in, num_simulations, days, draws, simulation_df>>
    /\ UNCHANGED <<ingestVars, dashVars>>

\* a call of run_monte_carlo(df_in, N, D), with the random source's draws z
RunMonteCarlo ==
    /\ df_in.st = "frame"
    /\ fn = "none"
    /\ fn' = "run_monte_carlo"
    /\ \E loc \in {daily_return(df_in)}, scale \in {daily_vol(df_in)} :
         \E N \in 0..MaxSims, D \in 0..MaxSimDays :
           \E z \in Draws(scale, N, D) :
             \E shocks \in {IF Len(df_in.index) = 0 THEN <<>>
                             ELSE draw_shocks(loc, scale, N, D, z)} :
               /\ num_simulations' = N
               /\ days' = D
               /\ draws' = shocks
               /\ simulation_df' = run_monte_carlo(df_in, N, D, shocks)
    /\ UNCHANGED <<df_in, returns>>
    /\ UNCHANGED <<ingestVars, dashVars>>

----------------------------------------------------------------------------
(* The states before anything has run *)

IngestIdle ==
    /\ db_tables = FALSE
    /\ stocks = <<>>
    /\ stock_prices = EmptyBag
    /\ ing_pc = "idle"
    /\ ing_i = 1
    /\ ing_runs = 0
    /\ request = NoRequest
    /\ data = NoData
    /\ df_prices = NoFrame
    /\ daily_returns = NoFrame

MetricsIdle ==
    /\ df_in = NoFrame
    /\ fn = "none"
    /\ returns = NoFrame
    /\ num_simulations = 0
    /\ days = 0
    /\ draws = <<>>
    /\ simulation_df = NoFrame

DashIdle ==
    /\ cache_data = [st |-> "none", index |-> <<>>, columns |-> <<>>, data |-> <<>>]
    /\ cache_sectors = [st |-> "none", rows |-> <<>>]
    /\ store_reads = 0
    /\ selected_assets = [set |-> FALSE, tickers |-> <<>>]
    /\ start_input = 0
    /\ end_input = 0
    /\ selected_tickers = <<>>
    /\ halt = "none"
    /\ message = "none"
    /\ calls = <<>>

----------------------------------------------------------------------------
(* The store, the ingestion job and the loader *)

InitIngest == IngestIdle /\ MetricsIdle /\ DashIdle

NextIngest ==
    \/ CreateDatabase
    \/ StartIngestion
    \/ GetOrCreateStock
    \/ \E resp \in Responses : UpdatePriceHistory(resp)
    \/ MetricsMain

SpecIngest == InitIngest /\ [][NextIngest]_vars

----------------------------------------------------------------------------
(* The analytics functions on bounded price matrices *)

\* close prices of the matrices
Prices == {F(0), F(1), F(2)}

\* the column labels of the matrices: no ticker, one, two
ColumnLabels == {<<>>, <<"AAPL">>, <<"AAPL", "SPY">>}

\* every PriceMatrix without missing values within the bounds
PriceMatrices ==
    UNION {{Frame([i \in 1..shape[1] |-> Today - shape[1] + i], shape[2], cells) :
                cells \in [1..shape[1] -> [1..Len(shape[2]) -> Prices]]} :
           shape \in {sh \in (0..MaxPriceRows) \X ColumnLabels :
                         sh[1] * Len(sh[2]) <= MaxCells}}

InitMetrics ==
    /\ IngestIdle
    /\ DashIdle
    /\ df_in \in PriceMatrices
    /\ fn = "none"
    /\ returns = NoFrame
    /\ num_simulations = 0
    /\ days = 0
    /\ draws = <<>>
    /\ simulation_df = NoFrame

NextMetrics ==
    \/ CalculateMetrics
    \/ RunMonteCarlo

SpecMetrics == InitMetrics /\ [][NextMetrics]_vars

----------------------------------------------------------------------------
(* The dashboard: app.py.  Streamlit runs the whole script again on every *)
(* user interaction; the cache belongs to the process, the session state  *)
(* and the widget values to the browser session.                          *)

\* failed loads in one behaviour
MaxStoreReads == 2

\* nlargest(5), nsmallest(5), tech_stocks[:5]
QuickSelectSize == 5

\* line 56: the selection of a new session
DefaultAssets == <<"AAPL", "MSFT", "NVDA", "SPY">>

\* no entry in st.cache_data
NoSectors == [st |-> "none", rows |-> <<>>]

\* 'selected_assets' not in st.session_state
Unset == [set |-> FALSE, tickers |-> <<>>]

\* a variant of the cache that never answers from its entry
cache_never_hits(entry) == FALSE

\* @st.cache_data (lines 35, 41): a call is answered from the entry when
\* there is one; a call that raises leaves no entry
cache_hit(entry) == entry.st # "none"

\* get_data (lines 35-39): load_data(), the index turned into timestamps
\* (dates stay the day numbers they are in the store)
get_data(tables, st, pr) == load_data(tables, st, pr)

\* get_sector_map (lines 41-45): symbol and sector of every stocks row
get_sector_map(st) ==
    [i \in DOMAIN st |-> [symbol |-> st[i].symbol, sector |-> st[i].sector]]

\* sector_map.get(ticker, default)
sector_get(sector_map, ticker, default) ==
    IF \E i \in DOMAIN sector_map : sector_map[i].symbol = ticker
    THEN sector_map[CHOOSE i \in DOMAIN sector_map : sector_map[i].symbol = ticker].sector
    ELSE default

\* lexicographic order of the sector names
SectorOrder == <<"Indices/ETFs", "Technology", "Unknown">>

SectorRank(sector) == CHOOSE i \in DOMAIN SectorOrder : SectorOrder[i] = sector

\* a variant that offers every ticker of the stocks table
all_tickers_of_stocks(df, sector_map) ==
    [i \in DOMAIN sector_map |-> sector_map[i].symbol]

\* line 106: the columns sorted by (sector, ticker)
all_tickers(df, sector_map) ==
    LET base == Len(SymbolOrder) + 1
        key(t) == SectorRank(sector_get(sector_map, t, "Unknown")) * base + SymbolRank(t)
        keys == SortedSeq({key(t) : t \in Range(df.columns)})
    IN  [i \in DOMAIN keys |-> SymbolOrder[keys[i] % base]]

\* x < y as numpy compares floats: false when either is NaN, -inf below
\* and inf above every other value
FLess(x, y) ==
    IF IsNaN(x) \/ IsNaN(y) THEN FALSE
    ELSE IF IsInf(x) THEN x.n < 0 /\ y # x
    ELSE IF IsInf(y) THEN y.n > 0
    ELSE x.n * y.d < y.n * x.d

\* the positions in left ordered by their value in keys (none of them
\* NaN), ties in the order of the positions
RECURSIVE OrderBy(_, _, _)
OrderBy(keys, left, descending) ==
    IF left = {} THEN <<>>
    ELSE LET Before(p, q) ==
                 \/ keys[p] = keys[q] /\ p < q
                 \/ keys[p] # keys[q] /\ (IF descending THEN FLess(keys[q], keys[p])
                                          ELSE FLess(keys[p], keys[q]))
             first == CHOOSE p \in left : \A q \in left \ {p} : Before(p, q)
         IN  <<first>> \o OrderBy(keys, left \ {first}, descending)

\* s[:5]
FirstFew(s) == SubSeq(s, 1, IF Len(s) < QuickSelectSize THEN Len(s) ELSE QuickSelectSize)

\* lines 86-89: the five largest returns over the last 30 rows.  With at
\* most five tickers nlargest sorts the whole series; whether the tickers
\* of undefined return (0/0) are kept (at the end) or dropped depends on the
\* pandas version (keep_nan).
top_5(df, keep_nan) ==
    LET n == Len(df.index)
        first == IF n > 30 THEN n - 29 ELSE 1
        ret == [j \in DOMAIN df.columns |->
                   FSub(FDiv(df.data[n][j], df.data[first][j]), F(1))]
        defined == {j \in DOMAIN ret : ~IsNaN(ret[j])}
        undefined == SortedSeq(DOMAIN ret \ defined)
        order == OrderBy(ret, defined, TRUE) \o (IF keep_nan THEN undefined ELSE <<>>)
    IN  FirstFew([i \in DOMAIN order |-> df.columns[order[i]]])

\* lines 92-93: the Technology tickers of the stocks table, at most five
tech_stocks(sector_map) ==
    LET tech == SelectSeq(sector_map, LAMBDA row : row.sector = "Technology")
    IN  FirstFew([i \in DOMAIN tech |-> tech[i].symbol])

\* lines 99-101: the five smallest volatilities.  The order by standard
\* deviation is the order by variance.  With at most five tickers
\* nsmallest sorts the whole series; whether the tickers of undefined
\* volatility are kept (at the end) or dropped depends on the pandas
\* version (keep_nan).
safe_stocks(df, keep_nan) ==
    LET r == pct_change(df)
        vol == [j \in DOMAIN df.columns |-> variance(Column(r, j))]
        defined == {j \in DOMAIN vol : ~IsNaN(vol[j])}
        undefined == SortedSeq(DOMAIN vol \ defined)
        order == OrderBy(vol, defined, FALSE) \o (IF keep_nan THEN undefined ELSE <<>>)
    IN  FirstFew([i \in DOMAIN order |-> df.columns[order[i]]])

\* every list one change of the user leaves in the multiselect: an item
\* removed (the others keep their order), an option added at the end, or
\* everything cleared
Selections(options, current) ==
    {SelectSeq(current, LAMBDA x : x # t) : t \in Range(current)}
    \cup {Append(current, t) : t \in Range(options) \ Range(current)}
    \cup {<<>>}

\* lines 123-124: the rows from start to end, the columns of the selection
filtered_prices(df, start, end, tickers) ==
    LET kept == SelectSeq([i \in DOMAIN df.index |-> i],
                          LAMBDA i : start <= df.index[i] /\ df.index[i] <= end)
        col(t) == CHOOSE j \in DOMAIN df.columns : df.columns[j] = t
    IN  Frame([i \in DOMAIN kept |-> df.index[kept[i]]],
              tickers,
              [i \in DOMAIN kept |->
                  [j \in DOMAIN tickers |-> df.data[kept[i]][col(tickers[j])]]])

\* a variant that goes on with an empty selection
never_halts(tickers) == FALSE

\* line 118: if not selected_tickers
halts_on_empty_selection(tickers) == tickers = <<>>

\* what one run of the script leaves behind, and where it ended:
\*   "load"         st.error and st.stop (lines 50-52)
\*   "date_input"   uncaught exception: the frame has no rows, min_date is
\*                  NaT (lines 74-77)
\*   "multiselect"  uncaught exception: a default that is no option
\*                  (lines 109-116)
\*   "selection"    st.warning and st.stop (lines 118-120)
\*   "filter"       uncaught KeyError: df_prices.loc with a label that is
\*                  no column (line 124)
\*   "kpi"          uncaught exception: iloc[-1] on no rows, or the top
\*                  mover of a last row whose changes are all NaN
\*                  (lines 131-141)
\*   "optimize"     uncaught exception inside optimize_portfolio's solver
\*   "end"          the script ran to its end
Outcome(cache, sectors_cache, reads, session, start, end, tickers, called, where, shown) ==
    [cache_data |-> cache, cache_sectors |-> sectors_cache, reads |-> reads,
     selected_assets |-> session, start_input |-> start, end_input |-> end,
     selected_tickers |-> tickers, calls |-> called, halt |-> where, message |-> shown]

\* lines 131-141: the KPI cards raise when the frame has no rows (iloc[-1])
\* or when the last daily change is NaN for every ticker (a single row, or
\* 0/0 in every column): idxmax raises, or gives nan, which is no label
kpi_raises(filtered) ==
    \/ Len(filtered.index) = 0
    \/ \A j \in DOMAIN filtered.columns :
          IsNaN(pct_change(filtered).data[Len(filtered.index)][j])

\* lines 122-249: the filter, calculate_metrics, the KPI cards and the tabs
script_render(cache, sectors_cache, reads, session, start, end, filtered, pressed, choice) ==
    IF kpi_raises(filtered)
    THEN Outcome(cache, sectors_cache, reads, session, start, end, session.tickers,
                 <<[fn |-> "calculate_metrics", df |-> filtered]>>, "kpi", "exception")
    ELSE IF pressed = "optimize"
    THEN Outcome(cache, sectors_cache, reads, session, start, end, session.tickers,
                 <<[fn |-> "calculate_metrics", df |-> filtered],
                   [fn |-> "optimize_portfolio", df |-> filtered]>>,
                 IF choice THEN "optimize" ELSE "end",
                 IF choice THEN "exception" ELSE "none")
    ELSE IF pressed = "simulate"
    THEN Outcome(cache, sectors_cache, reads, session, start, end, session.tickers,
                 <<[fn |-> "calculate_metrics", df |-> filtered],
                   [fn |-> "run_monte_carlo", df |-> filtered]>>, "end", "none")
    ELSE Outcome(cache, sectors_cache, reads, session, start, end, session.tickers,
                 <<[fn |-> "calculate_metrics", df |-> filtered]>>, "end", "none")

\* lines 106-124: the multiselect, whose value is its default (the widget
\* is built anew whenever the default changes), the empty selection, and
\* the column labels of the filter
script_select(cache, sectors_cache, reads, session, start, end, options, pressed, choice) ==
    IF ~(Range(session.tickers) \subseteq Range(options))
    THEN Outcome(cache, sectors_cache, reads, session, start, end, <<>>, <<>>,
                 "multiselect", "exception")
    ELSE IF halts_on_empty_selection(session.tickers)
    THEN Outcome(cache, sectors_cache, reads, session, start, end, <<>>, <<>>,
                 "selection", "warning")
    ELSE IF ~(Range(session.tickers) \subseteq Range(cache.columns))
    THEN Outcome(cache, sectors_cache, reads, session, start, end, session.tickers, <<>>,
                 "filter", "exception")
    ELSE script_render(cache, sectors_cache, reads, session, start, end,
                       filtered_prices(cache, start, end, session.tickers),
                       pressed, choice)

\* lines 54-103: the session's default, the date inputs, the buttons
script_sidebar(cache, sectors_cache, reads, assets, start, end, pressed, choice) ==
    IF Len(cache.index) = 0
    THEN Outcome(cache, sectors_cache, reads, [set |-> TRUE, tickers |-> assets],
                 0, 0, <<>>, <<>>, "date_input", "exception")
    ELSE script_select(cache, sectors_cache, reads,
                       [set |-> TRUE,
                        tickers |-> CASE pressed = "top5" -> top_5(cache, choice)
                                      [] pressed = "tech" -> tech_stocks(sectors_cache.rows)
                                      [] pressed = "safe" -> safe_stocks(cache, choice)
                                      [] OTHER -> assets],
                       IF start = 0 THEN cache.index[1] ELSE start,
                       IF end = 0 THEN cache.index[Len(cache.index)] ELSE end,
                       all_tickers(cache, sectors_cache.rows),
                       pressed, choice)

\* lines 47-52: get_data() and get_sector_map() inside the try.  loaded is
\* what get_data() gave; an exception is shown as the database error.
script_load(loaded, cache, sectors_cache, reads, st, session, start, end, pressed, choice) ==
    IF loaded.st = "raised"
    THEN Outcome(cache, sectors_cache, reads, session, 0, 0, <<>>, <<>>,
                 "load", "database_error")
    ELSE script_sidebar(loaded,
                        IF cache_hit(sectors_cache) THEN sectors_cache
                        ELSE [st |-> "map", rows |-> get_sector_map(st)],
                        reads,
                        IF session.set THEN session.tickers ELSE DefaultAssets,
                        start, end, pressed, choice)

\* one run of the script (lines 47-249).  session is the session's
\* selected_assets and start, end the values of the date widgets when the
\* run starts, pressed the button that caused the run; choice stands for
\* what the libraries decide.
script(cache, sectors_cache, tables, st, pr, session, start, end, pressed, choice) ==
    IF cache_hit(cache)
    THEN script_load(cache, cache, sectors_cache, 0, st, session, start, end, pressed, choice)
    ELSE script_load(get_data(tables, st, pr), cache, sectors_cache, 1, st, session,
                     start, end, pressed, choice)

\* the run's effect on the process and the session
Run(session, start, end, pressed) ==
    /\ cache_hit(cache_data) \/ store_reads < MaxStoreReads
    /\ \E choice \in (IF pressed \in {"top5", "safe", "optimize"} THEN BOOLEAN ELSE {FALSE}) :
         \E r \in {script(cache_data, cache_sectors, db_tables, stocks, stock_prices,
                          session, start, end, pressed, choice)} :
            /\ cache_data' = r.cache_data
            /\ cache_sectors' = r.cache_sectors
            /\ store_reads' = store_reads + r.reads
            /\ selected_assets' = r.selected_assets
            /\ start_input' = r.start_input
            /\ end_input' = r.end_input
            /\ selected_tickers' = r.selected_tickers
            /\ calls' = r.calls
            /\ halt' = r.halt
            /\ message' = r.message
    /\ UNCHANGED <<ingestVars, metricsVars>>

\* where a run ended that had drawn the date inputs and the buttons
PastButtons == {"multiselect", "selection", "filter", "kpi", "optimize", "end"}
\* ... the multiselect
PastMultiselect == {"selection", "filter", "kpi", "optimize", "end"}
\* ... the tabs up to the optimizer's button
PastKpi == {"optimize", "end"}

\* the browser opens the dashboard: the first run of the script
Start ==
    /\ halt = "none"
    /\ Run(Unset, 0, 0, "none")

\* the user reruns the script without touching a widget
Rerun ==
    /\ halt # "none"
    /\ Run(selected_assets, start_input, end_input, "none")

\* the browser opens a new session on the same process
NewSession ==
    /\ halt # "none"
    /\ Run(Unset, 0, 0, "none")

\* lines 76-77: the user picks a date in one of the two inputs
DateInput ==
    /\ halt \in PastButtons
    /\ \E d \in cache_data.index[1]..cache_data.index[Len(cache_data.index)] :
         \/ d # start_input /\ Run(selected_assets, d, end_input, "none")
         \/ d # end_input /\ Run(selected_assets, start_input, d, "none")

\* lines 85-89
Top5 == halt \in PastButtons /\ Run(selected_assets, start_input, end_input, "top5")

\* lines 91-94
Tech == halt \in PastButtons /\ Run(selected_assets, start_input, end_input, "tech")

\* lines 96-102
Safe == halt \in PastButtons /\ Run(selected_assets, start_input, end_input, "safe")

\* lines 109-116: the user changes the multiselect; on_change stores the
\* new value with set_tickers before the script runs again
MultiselectChange ==
    /\ halt \in PastMultiselect
    /\ \E v \in Selections(all_tickers(cache_data, cache_sectors.rows),
                             selected_assets.tickers) :
         /\ v # selected_assets.tickers
         /\ Run([set |-> TRUE, tickers |-> v], start_input, end_input, "none")

\* line 204
Optimize == halt \in PastKpi /\ Run(selected_assets, start_input, end_input, "optimize")

\* line 230
Simulate == halt = "end" /\ Run(selected_assets, start_input, end_input, "simulate")

\* the tickers of the store in the dashboard model, in ingestion order
DashSectors ==
    << [symbol |-> "AAPL", sector |-> "Technology"],
       [symbol |-> "MSFT", sector |-> "Technology"],
       [symbol |-> "NVDA", sector |-> "Technology"],
       [symbol |-> "SPY",  sector |-> "Indices/ETFs"] >>

\* the close of a stock on a day: 1 the day before, id + 1 today
DashClose(stock_id, date) == IF date = Today THEN F(stock_id + 1) ELSE F(1)

\* the days a stock can have rows for
DateSets == {{}, {Today}, {Today - 1, Today}}

\* the stocks table after the first k tickers
DashStocks(k) ==
    [i \in 1..k |-> Stock(DashSectors[i].symbol, DashSectors[i].symbol, DashSectors[i].sector)]

\* the stock_prices table with rows for the days has[i] of stock i
DashPrices(has) ==
    SetToBag(UNION {{StockPrice(i, d, DashClose(i, d)) : d \in has[i]} : i \in DOMAIN has})

\* the stores the dashboard is started on: no tables; the first k tickers
\* with rows for some days each; and complete stores in which the last
\* day of the first ticker was stored twice
DashStores ==
    {[tables |-> FALSE, stocks |-> <<>>, prices |-> EmptyBag]}
    \cup UNION {{[tables |-> TRUE, stocks |-> DashStocks(k), prices |-> DashPrices(has)] :
                    has \in [1..k -> DateSets]} : k \in 0..Len(DashSectors)}
    \cup {[tables |-> TRUE, stocks |-> DashStocks(k),
           prices |-> DashPrices([i \in 1..k |-> Days])
                      (+) SetToBag({StockPrice(1, Today, DashClose(1, Today))})] :
             k \in 1..Len(DashSectors)}

InitDash ==
    /\ \E store \in DashStores :
         /\ db_tables = store.tables
         /\ stocks = store.stocks
         /\ stock_prices = store.prices
    /\ ing_pc = "idle"
    /\ ing_i = 1
    /\ ing_runs = 0
    /\ request = NoRequest
    /\ data = NoData
    /\ df_prices = NoFrame
    /\ daily_returns = NoFrame
    /\ MetricsIdle
    /\ DashIdle

NextDash ==
    \/ CreateDatabase
    \/ Start
    \/ Rerun
    \/ NewSession
    \/ DateInput
    \/ Top5
    \/ Tech
    \/ Safe
    \/ MultiselectChange
    \/ Optimize
    \/ Simulate

SpecDash == InitDash /\ [][NextDash]_vars

----------------------------------------------------------------------------
(* Properties of the analytics functions, under SpecMetrics *)

\* r is the return from price p0 to price p1 (prices are not negative):
\* (r + 1) * p0 = p1, and inf or NaN where p0 is zero
IsReturnOf(r, p0, p1) ==
    IF p0 = F(0)
    THEN (IF p1 = F(0) THEN IsNaN(r) ELSE r = PosInf)
    ELSE IsNum(r) /\ FMul(FAdd(r, F(1)), p0) = p1

\* the returns frame has one row less than the matrix, and its first row is
\* PriceMatrix[1] / PriceMatrix[0] - 1 elementwise
OneRowLessAndFirstRow ==
    /\ returns.st = "frame"
    /\ Len(returns.index) = Len(df_in.index) - 1
    /\ Len(returns.data) = Len(returns.index)
    /\ Len(df_in.index) >= 2 =>
          /\ Len(returns.data) >= 1
          /\ \A j \in DOMAIN df_in.columns :
                /\ ~IsNaN(returns.data[1][j])
                /\ IsReturnOf(returns.data[1][j], df_in.data[1][j], df_in.data[2][j])

\* C3 as stated: for any PriceMatrix with no missing values, calculate_metrics
\* returns a ReturnsMatrix with (row count - 1) rows whose first row is
\* PriceMatrix[1]/PriceMatrix[0] - 1 elementwise.
C3_ReturnsOneRowLess ==
    fn = "calculate_metrics" => OneRowLessAndFirstRow

\* no column holds a zero price directly followed by a zero price
NoZeroAfterZero(df) ==
    \A i \in DOMAIN df.data : \A j \in DOMAIN df.columns :
        i > 1 => ~(df.data[i][j] = F(0) /\ df.data[i - 1][j] = F(0))

\* C3 amended: the same, for a PriceMatrix that has at least one row and one
\* ticker and no zero price directly followed by a zero price in a column.
C3_ReturnsOneRowLessAmended ==
    (/\ fn = "calculate_metrics"
     /\ Len(df_in.index) >= 1
     /\ Len(df_in.columns) >= 1
     /\ NoZeroAfterZero(df_in)) => OneRowLessAndFirstRow

\* C3 witness: three days of two tickers, prices 1, 2, 0 and 2, 1, 1: two
\* rows of returns, the first one 1 and -1/2
C3_Witness ==
    /\ fn = "calculate_metrics"
    /\ df_in.data = << <<F(1), F(2)>>, <<F(2), F(1)>>, <<F(0), F(1)>> >>
    /\ returns.data = << <<F(1), Frac(-1, 2)>>, <<F(-1), F(0)>> >>

\* C4 as stated: run_monte_carlo returns a matrix with N rows (one per run)
\* and D+1 columns (one per day).
C4_ShapeRunsByDays ==
    fn = "run_monte_carlo" =>
        /\ simulation_df.st = "frame"
        /\ Len(simulation_df.index) = num_simulations
        /\ Len(simulation_df.columns) = days + 1

\* C4 amended: on a PriceMatrix with at least one row, for N >= 1 and D >= 0,
\* run_monte_carlo returns a frame with D+1 rows (one per day, the initial
\* shocked price included) and N columns (one per run); for N = 0 it is the
\* empty frame.
C4_ShapeDaysByRuns ==
    (fn = "run_monte_carlo" /\ Len(df_in.index) >= 1) =>
        /\ simulation_df.st = "frame"
        /\ num_simulations >= 1 =>
              /\ Len(simulation_df.index) = days + 1
              /\ Len(simulation_df.columns) = num_simulations
              /\ Len(simulation_df.data) = days + 1
              /\ \A t \in DOMAIN simulation_df.data :
                    Len(simulation_df.data[t]) = num_simulations
        /\ num_simulations = 0 =>
              /\ simulation_df.index = <<>>
              /\ simulation_df.columns = <<>>

\* C4 witness: two runs over a horizon of zero days give one row of two
\* columns, with different prices in the two runs
C4_Witness ==
    /\ fn = "run_monte_carlo"
    /\ num_simulations = 2 /\ days = 0
    /\ Len(simulation_df.index) = 1
    /\ Len(simulation_df.columns) = 2
    /\ IsNum(simulation_df.data[1][1])
    /\ simulation_df.data[1][1] # simulation_df.data[1][2]

\* the mean of the latest price row across the tickers
LastPriceMean == FDiv(FSum(df_in.data[Len(df_in.data)]), F(Len(df_in.columns)))

\* the path of run x: the column x of the result, days 0..D
Path(x) == [t \in DOMAIN simulation_df.data |-> simulation_df.data[t][x]]

\* C11: in every run of run_monte_carlo, given the drawn shocks s0..sD,
\* path[0] = last_price_mean * (1 + s0) and path[t] = path[t-1] * (1 + s_t)
\* for t in 1..D; each run starts from last_price_mean and depends on its own
\* shocks only; for N = 1, D = 0 the output is the single value
\* last_price_mean * (1 + s0).  (Undefined values are equal to each other.)
C11_PathsCompoundShocks ==
    (fn = "run_monte_carlo" /\ simulation_df.st = "frame") =>
        /\ \A x \in 1..num_simulations :
              /\ Len(draws[x]) = days + 1
              /\ Len(Path(x)) = days + 1
              /\ Path(x)[1] = FMul(LastPriceMean, FAdd(F(1), draws[x][1]))
              /\ \A t \in 1..days :
                    Path(x)[t + 1] = FMul(Path(x)[t], FAdd(F(1), draws[x][t + 1]))
        /\ \A x, y \in 1..num_simulations : draws[x] = draws[y] => Path(x) = Path(y)
        /\ (num_simulations = 1 /\ days = 0) =>
              simulation_df.data = << <<FMul(LastPriceMean, FAdd(F(1), draws[1][1]))>> >>

\* C11 witness: two runs of one day on two tickers whose last prices
\* differ, with different shocks: the paths are numbers, move on the second
\* day and differ between the runs
C11_Witness ==
    /\ fn = "run_monte_carlo"
    /\ num_simulations = 2 /\ days = 1
    /\ Len(df_in.columns) = 2
    /\ Len(df_in.data) >= 1
    /\ df_in.data[Len(df_in.data)][1] # df_in.data[Len(df_in.data)][2]
    /\ draws[1] = <<Frac(1, 2), Frac(-1, 2)>>
    /\ draws[2] = <<Frac(-1, 2), Frac(1, 2)>>
    /\ IsNum(Path(1)[2])
    /\ Path(1)[2] # Path(1)[1]
    /\ Path(1) # Path(2)

----------------------------------------------------------------------------
(* Properties of the store and the ingestion job, under SpecIngest *)

\* C1: after any sequence of ingestion runs the store holds at most one
\* StockPrice row per (ticker, date).
C1_OnePricePointPerTickerDate ==
    \A r \in BagToSet(stock_prices) : CountAt(stock_prices, r.stock_id, r.date) = 1

\* the stored dates, and whether a ticker has a non-missing close on a date
StoredDates == {r.date : r \in BagToSet(stock_prices)}
HasClose(symbol, date) ==
    \E r \in RowsOf(stock_prices, StockId(stocks, symbol)) :
        r.date = date /\ ~IsNaN(r.close)

\* what C2 says of a frame: no missing cell, one column per ticker of the
\* store, and a date is a row exactly when every ticker has a close on it
CompleteDatesFrame(df) ==
    /\ df.st = "frame"
    /\ \A i \in DOMAIN df.data : \A j \in DOMAIN df.data[i] : ~IsNaN(df.data[i][j])
    /\ Len(df.data) = Len(df.index)
    /\ Range(df.columns) = JoinedSymbols(stocks, stock_prices)
    /\ Range(df.index) =
           {d \in StoredDates : \A sym \in JoinedSymbols(stocks, stock_prices) : HasClose(sym, d)}

\* C2: load_data, called on the persisted store, returns a PriceMatrix with
\* no missing cells that holds a date exactly when every ticker has a
\* non-missing close on that date.
C2_LoadDataKeepsCompleteDates ==
    (db_tables /\ df_prices.st # "none") => CompleteDatesFrame(df_prices)

\* C2 on the stores that satisfy C1: there load_data returns the frame
C2_HoldsOnStoresWithoutDuplicates ==
    (db_tables /\ df_prices.st # "none" /\ C1_OnePricePointPerTickerDate)
        => CompleteDatesFrame(df_prices)

\* a step of update_price_history that reached yf.download
DownloadStep == ing_pc = "update" /\ ing_pc' # "update"

CurrentId == StockId(stocks, sectors[ing_i].symbol)

\* C8: the requested range starts the day after the latest stored date of
\* the ticker, or 365*5 days before now when the ticker has no rows; it never
\* starts at or before a date stored for the ticker.
C8_RequestStartsAfterStored ==
    [][DownloadStep =>
        /\ request'.symbol = sectors[ing_i].symbol
        /\ \A r \in RowsOf(stock_prices, CurrentId) : request'.start > r.date
        /\ RowsOf(stock_prices, CurrentId) # {} =>
               \E r \in RowsOf(stock_prices, CurrentId) : request'.start = r.date + 1
        /\ RowsOf(stock_prices, CurrentId) = {} =>
               request'.start = Today - 365 * 5
      ]_vars

\* C8 witness: SPY holds a row of yesterday and the request starts today,
\* while AAPL, with rows of its own, was asked for separately
C8_Witness ==
    /\ request = [symbol |-> "SPY", start |-> Today]
    /\ \E r \in RowsOf(stock_prices, 2) : r.date = Today - 1
    /\ \E r \in RowsOf(stock_prices, 1) : r.date = Today

\* C9: when the provider returns no rows, update_price_history leaves the
\* store unchanged and the loop goes on to the next configured ticker;
\* get_or_create_stock never touches the price rows either, so a run whose
\* responses are all empty leaves every PricePoint as it was.
C9_EmptyResponseLeavesStore ==
    [][/\ (DownloadStep /\ ~data'.raises /\ data'.rows = <<>>) =>
            /\ stock_prices' = stock_prices
            /\ stocks' = stocks
            /\ IF ing_i < Len(sectors)
               THEN ing_pc' = "create" /\ ing_i' = ing_i + 1
               ELSE ing_pc' = "done"
       /\ ing_pc = "create" => stock_prices' = stock_prices
      ]_vars

\* C9 witness: in a second run, over a store that holds rows, the provider
\* answered AAPL with no rows and the loop stands at the next ticker
C9_Witness ==
    /\ ing_runs = 2
    /\ stock_prices # EmptyBag
    /\ request.symbol = "AAPL"
    /\ data = NoData
    /\ ing_pc = "create" /\ ing_i = 2

\* C10: a failing fetch or row conversion ends the ingestion run: nothing is
\* added for the failing ticker, the earlier rows stay, no later ticker is
\* processed, and the crashed process does nothing more (only a new
\* process, started from the first ticker, follows).
C10_FailureEndsRun ==
    [][/\ (DownloadStep /\ (data'.raises \/ ConversionRaises(data'.rows))) =>
            /\ ing_pc' = "crashed"
            /\ ing_i' = ing_i
            /\ stock_prices' = stock_prices
       /\ ing_pc = "crashed" =>
            /\ stock_prices' = stock_prices
            /\ stocks' = stocks
            /\ \/ ing_pc' = "crashed" /\ ing_i' = ing_i
               \/ ing_pc' = "create" /\ ing_i' = 1 /\ ing_runs' = ing_runs + 1
      ]_vars

\* C10 witness: the run crashed at the second ticker on a row that does not
\* convert; the first ticker's rows are stored, the second has none
C10_Witness ==
    /\ ing_pc = "crashed" /\ ing_i = 2
    /\ ~data.raises /\ ConversionRaises(data.rows)
    /\ RowsOf(stock_prices, 1) # {}
    /\ RowsOf(stock_prices, 2) = {}

----------------------------------------------------------------------------
(* Properties of the dashboard, under SpecDash *)

\* C5 as stated: within one dashboard process, across any sequence of
\* reruns, the loader reads the price store at most once.
C5_StoreReadAtMostOnce == store_reads <= 1

\* C5 amended: the loader reads the store successfully at most once.  Once
\* get_data() has returned a frame, every later run uses that frame and does
\* not query the store; a run without a cached frame queries the store
\* once, and a query that raised leaves no entry, so that the next run
\* queries the store again.
C5_StoreReadOnceLoaded ==
    [][/\ cache_data.st = "frame" =>
             /\ store_reads' = store_reads
             /\ cache_data' = cache_data
       /\ store_reads' \in {store_reads, store_reads + 1}
       /\ (cache_data.st = "none" /\ cache_data'.st = "frame") =>
             store_reads' = store_reads + 1
       /\ (store_reads' = store_reads + 1 /\ cache_data'.st = "none") =>
             (halt' = "load" /\ message' = "database_error")]_vars

\* C5 witness: a run caused by the simulation button, which only a fully
\* drawn earlier run offers, with the store read once in all
C5_Witness ==
    /\ cache_data.st = "frame"
    /\ store_reads = 1
    /\ halt = "end"
    /\ Len(calls) = 2
    /\ calls[2].fn = "run_monte_carlo"

\* the store cannot be read, or holds no price row
UnreachableOrEmpty == ~db_tables \/ stock_prices = EmptyBag

\* C6 as stated: if the store is unreachable or empty when the dashboard
\* loads prices, the dashboard shows the message that directs the user to
\* run ingestion and halts; nothing later is drawn and no analytics
\* function is called.  (Tables are only ever added to the store here, so
\* a store that is unreachable or empty now was so at every earlier run.)
C6_UnreachableOrEmptyStoreHalts ==
    (halt # "none" /\ UnreachableOrEmpty) =>
        /\ halt = "load"
        /\ message = "database_error"
        /\ selected_tickers = <<>>
        /\ calls = <<>>

\* the part of C6 that holds: a store without tables
C6_UnreachableStoreHalts ==
    (halt # "none" /\ ~db_tables) =>
        /\ halt = "load"
        /\ message = "database_error"
        /\ selected_tickers = <<>>
        /\ calls = <<>>

\* C7: whenever the ticker selection is empty, the dashboard shows the
\* warning and halts before the filter: no analytics function is called
\* with an empty ticker set, and a run goes past the warning only with a
\* selection that is not empty.
C7_EmptySelectionHalts ==
    /\ \A i \in DOMAIN calls : calls[i].df.columns # <<>>
    /\ (halt \in PastMultiselect /\ selected_assets.tickers = <<>>) =>
          /\ halt = "selection"
          /\ message = "warning"
          /\ calls = <<>>
    /\ halt \in {"kpi", "optimize", "end"} =>
          /\ selected_tickers # <<>>
          /\ selected_tickers = selected_assets.tickers
          /\ calls # <<>>

\* C7 witness: the data is loaded, the date inputs are drawn, the
\* selection is empty and the run has ended at the warning
C7_Witness ==
    /\ cache_data.st = "frame"
    /\ start_input # 0
    /\ selected_assets = [set |-> TRUE, tickers |-> <<>>]
    /\ halt = "selection"
    /\ message = "warning"
    /\ calls = <<>>

\* C12: on every run that reaches the data filter, after any sequence of
\* quick-select buttons and multiselect changes, every ticker of the active
\* selection is a column of the loaded PriceMatrix: the filter never raises
\* for a ticker the matrix lacks, and every frame handed to the analytics
\* functions has the selection as its columns.
C12_SelectionWithinMatrix ==
    /\ halt # "filter"
    /\ halt \in {"kpi", "optimize", "end"} =>
          /\ Range(selected_tickers) \subseteq Range(cache_data.columns)
          /\ Range(selected_assets.tickers) \subseteq Range(cache_data.columns)
          /\ \A i \in DOMAIN calls :
                /\ calls[i].df.st = "frame"
                /\ calls[i].df.columns = selected_tickers

\* C12 witness: the matrix lacks a default ticker and a Technology ticker
\* of the stocks table, and a run has gone through the filter to its end
C12_Witness ==
    /\ cache_data.st = "frame"
    /\ ~(Range(DefaultAssets) \subseteq Range(cache_data.columns))
    /\ ~(Range(tech_stocks(cache_sectors.rows)) \subseteq Range(cache_data.columns))
    /\ halt = "end"
    /\ selected_tickers # <<>>
    /\ calls # <<>>

====
